---- MODULE Spec2Model ----
(***************************************************************************)
(* Recursive crawl orchestration and completion tracking of the directory *)
(* worker (src/src/workers/directory.ts): one BullMQ job per directory,   *)
(* a Redis counter of pending jobs, and the "completed"/"failed" event     *)
(* handlers that finalise the repository status.                           *)
(*                                                                         *)
(* Paths are modelled as sequences of segments: "a/c" is <<"a","c">> and   *)
(* the root path "" is <<>>; split("/")/join("/") become sequence          *)
(* operations.                                                             *)
(***************************************************************************)
EXTENDS Integers, Sequences, FiniteSets, Bags, TLC

\* ------------------------------------------------------------------ bounds

\* Number of injected failures (fetch, transaction, counter, queue, handler)
\* in one run.
MaxFailures == 2

\* Jobs executing at the same time (worker option `concurrency`).
CONCURRENT_PROCESSING == 2

\* Files per transaction in processFilesInBatches.
FILE_BATCH_SIZE == 2

\* ------------------------------------------------------------ content tree

Root == <<>>

Dir(p) == [path |-> p, type |-> "dir"]

File(p) == [path |-> p, type |-> "file"]

\* What fetchGithubContent returns for each directory path: the immediate
\* children only, in the order of the listing.
Tree ==
  (Root :> << Dir(<<"a">>), File(<<"f1">>), Dir(<<"b">>), File(<<"f2">>),
              File(<<"f3">>) >>)
  @@ (<<"a">> :> << File(<<"a", "g">>), Dir(<<"a", "c">>) >>)
  @@ (<<"b">> :> << >>)
  @@ (<<"a", "c">> :> << File(<<"a", "c", "k">>), File(<<"a", "c", "m">>) >>)

Paths == DOMAIN Tree

Min(a, b) == IF a < b THEN a ELSE b

NULL == <<>>

\* The identifier the store gives a directory row (never NULL).
RowId(path) == <<"id">> \o path

\* ----------------------------------------------------------- worker helpers

\* items.filter((item) => item.type === "dir")
Directories(p) == SelectSeq(Tree[p], LAMBDA item : item.type = "dir")

\* items.filter((item) => item.type === "file")
Files(p) == SelectSeq(Tree[p], LAMBDA item : item.type = "file")

\* path.split("/").slice(0, -1).join("/")
ParentPath(path) == SubSeq(path, 1, Len(path) - 1)

\* directoryMap.get(key)?.id || null, the map being a set of created rows
IdOrNull(map, key) ==
  IF \E r \in map : r.path = key
  THEN (CHOOSE r \in map : r.path = key).id
  ELSE NULL

DirectoryDataSkipFirst(p) ==
  LET directories == Directories(p)
  IN  [i \in 1..(Len(directories) - 1) |->
         [id |-> RowId(directories[i + 1].path),
          path |-> directories[i + 1].path,
          parentId |-> NULL]]

\* The prisma.directory.create calls built by directories.map(...): the
\* directoryMap is still the empty `new Map()` when they are built.
DirectoryData(p) ==
  LET directories == Directories(p)
      directoryMap == {}
  IN  [i \in 1..Len(directories) |->
         [id |-> RowId(directories[i].path),
          path |-> directories[i].path,
          parentId |-> IdOrNull(directoryMap, ParentPath(directories[i].path))]]

\* directoryId for the current path, resolved from the first file's path
DirectoryId(p, directoryMap) ==
  LET files == Files(p)
      pathParts == IF Len(files) > 0 THEN files[1].path ELSE <<>>
      dirPath == ParentPath(pathParts)
  IN  IdOrNull(directoryMap, dirPath)

\* for (i = 0; i < files.length; i += FILE_BATCH_SIZE) push(files.slice(...))
RECURSIVE FileBatches(_)
RECURSIVE FileBatchesDropPartial(_)
FileBatchesDropPartial(files) ==
  IF Len(files) < FILE_BATCH_SIZE THEN <<>>
  ELSE <<SubSeq(files, 1, FILE_BATCH_SIZE)>>
       \o FileBatchesDropPartial(SubSeq(files, FILE_BATCH_SIZE + 1, Len(files)))

FileBatches(files) ==
  IF Len(files) = 0 THEN <<>>
  ELSE <<SubSeq(files, 1, Min(FILE_BATCH_SIZE, Len(files)))>>
       \o FileBatches(SubSeq(files, FILE_BATCH_SIZE + 1, Len(files)))

\* The prisma.file.create calls of one batch
FileData(batch, directoryId) ==
  [i \in 1..Len(batch) |-> [path |-> batch[i].path, directoryId |-> directoryId]]

RECURSIVE SeqToBag(_)
SeqToBag(s) ==
  IF Len(s) = 0 THEN EmptyBag ELSE SetToBag({Head(s)}) (+) SeqToBag(Tail(s))

\* The paths of the subdirectories a job for p fans out to
Children(p) == {Directories(p)[i].path : i \in 1..Len(Directories(p))}

\* The job that discovers d
Parent(d) == CHOOSE p \in Paths : d \in Children(p)

\* sendProcessingUpdate(repositoryId, {status, message}): best effort, its
\* failures are not surfaced to the caller, so sending never throws.
Update(st, kind, p, i) == [status |-> st, kind |-> kind, path |-> p, i |-> i]

\* ------------------------------------------------------------------- state

VARIABLES
  status,         \* repository.status of the run
  counter,        \* redis key repo:<id>:pending_jobs
  dirRows,        \* bag of directory rows
  fileRows,       \* bag of file rows
  updates,        \* set of progress updates sent so far
  enqueued,       \* number of directoryQueue.add calls per path
  jobState,       \* per path: none, waiting, active, completed, failed, done
  pc,             \* per path: position of the worker function
  result,         \* per path: how the worker function ended
  directoryMap,   \* per path: the job's local directoryMap
  batch,          \* per path: file batches committed by the job
  fan,            \* per child path: progress of its incr-then-add callback
  hpc,            \* per path: position of the "completed" handler
  remainingJobs,  \* per path: the handler's decr result
  repoStatus,     \* per path: the status the handler read
  released,       \* paths whose job's decrement has been applied
  zeroSeen,       \* handlers that saw remainingJobs 0 and status PROCESSING
  fired,          \* writes of SUCCESS by a completion handler
  failures        \* failures injected so far

vars == << status, counter, dirRows, fileRows, updates, enqueued, jobState, pc,
           result, directoryMap, batch, fan, hpc, remainingJobs, repoStatus,
           released, zeroSeen, fired, failures >>

store == << dirRows, fileRows >>

handler == << hpc, remainingJobs, repoStatus, released, zeroSeen, fired >>

\* The run as the initiator leaves it: status PROCESSING, the counter counting
\* the root job, the root job in the queue.
Init ==
  /\ status = "PROCESSING"
  /\ counter = 1
  /\ dirRows = EmptyBag
  /\ fileRows = EmptyBag
  /\ updates = {}
  /\ enqueued = [p \in Paths |-> IF p = Root THEN 1 ELSE 0]
  /\ jobState = [p \in Paths |-> IF p = Root THEN "waiting" ELSE "none"]
  /\ pc = [p \in Paths |-> "idle"]
  /\ result = [p \in Paths |-> "none"]
  /\ directoryMap = [p \in Paths |-> {}]
  /\ batch = [p \in Paths |-> 0]
  /\ fan = [d \in Paths \ {Root} |-> "none"]
  /\ hpc = [p \in Paths |-> "idle"]
  /\ remainingJobs = [p \in Paths |-> 0]
  /\ repoStatus = [p \in Paths |-> "none"]
  /\ released = {}
  /\ zeroSeen = 0
  /\ fired = 0
  /\ failures = 0

CanFail == failures < MaxFailures

Executing == {p \in Paths : jobState[p] = "active"}

\* ------------------------------------------------------------------ worker

\* The queue hands a waiting job to a free slot of the worker pool.
Start(p) ==
  /\ jobState[p] = "waiting"
  /\ Cardinality(Executing) < CONCURRENT_PROCESSING
  /\ jobState' = [jobState EXCEPT ![p] = "active"]
  /\ pc' = [pc EXCEPT ![p] = "fetch"]
  /\ UNCHANGED << status, counter, store, updates, enqueued, result,
                  directoryMap, batch, fan, handler, failures >>

\* An error thrown inside the try block: control goes to the catch.
Throw(p) ==
  /\ CanFail
  /\ failures' = failures + 1
  /\ pc' = [pc EXCEPT ![p] = "catch"]

\* fetchGithubContent succeeds; "Processing directory" is sent.
Fetch(p) ==
  /\ jobState[p] = "active" /\ pc[p] = "fetch"
  /\ updates' = updates \cup {Update("PROCESSING", "Processing directory", p, 0)}
  /\ pc' = [pc EXCEPT ![p] = "saveDirs"]
  /\ UNCHANGED << status, counter, store, enqueued, jobState, result,
                  directoryMap, batch, fan, handler, failures >>

FetchFail(p) ==
  /\ jobState[p] = "active" /\ pc[p] = "fetch"
  /\ Throw(p)
  /\ UNCHANGED << status, counter, store, updates, enqueued, jobState, result,
                  directoryMap, batch, fan, handler >>

SaveDirsTwice(p) ==
  /\ jobState[p] = "active" /\ pc[p] = "saveDirs"
  /\ dirRows' = dirRows (+) SeqToBag(DirectoryData(p)) (+) SeqToBag(DirectoryData(p))
  /\ directoryMap' = [directoryMap EXCEPT
                        ![p] = {DirectoryData(p)[i] : i \in DOMAIN DirectoryData(p)}]
  /\ updates' = updates \cup {Update("PROCESSING", "Processing files", p, 0)}
  /\ pc' = [pc EXCEPT ![p] = "files"]
  /\ UNCHANGED << status, counter, fileRows, enqueued, jobState, result,
                  batch, fan, handler, failures >>

\* prisma.$transaction(directoryData) commits every subdirectory row, the
\* created rows fill directoryMap, and processFilesInBatches announces itself.
SaveDirs(p) ==
  /\ jobState[p] = "active" /\ pc[p] = "saveDirs"
  /\ dirRows' = dirRows (+) SeqToBag(DirectoryData(p))
  /\ directoryMap' = [directoryMap EXCEPT
                        ![p] = {DirectoryData(p)[i] : i \in DOMAIN DirectoryData(p)}]
  /\ updates' = updates \cup {Update("PROCESSING", "Processing files", p, 0)}
  /\ pc' = [pc EXCEPT ![p] = "files"]
  /\ UNCHANGED << status, counter, fileRows, enqueued, jobState, result,
                  batch, fan, handler, failures >>

SaveDirsFail(p) ==
  /\ jobState[p] = "active" /\ pc[p] = "saveDirs"
  /\ Throw(p)
  /\ UNCHANGED << status, counter, store, updates, enqueued, jobState, result,
                  directoryMap, batch, fan, handler >>

\* One iteration of the batch loop: the transaction of the next batch commits
\* and "Saved batch i/total" is sent.
SaveBatch(p) ==
  /\ jobState[p] = "active" /\ pc[p] = "files"
  /\ batch[p] < Len(FileBatches(Files(p)))
  /\ LET i == batch[p] + 1
         directoryId == DirectoryId(p, directoryMap[p])
     IN  /\ fileRows' = fileRows
                        (+) SeqToBag(FileData(FileBatches(Files(p))[i], directoryId))
         /\ updates' = updates \cup {Update("PROCESSING", "Saved batch", p, i)}
         /\ batch' = [batch EXCEPT ![p] = i]
  /\ UNCHANGED << status, counter, dirRows, enqueued, jobState, pc, result,
                  directoryMap, fan, handler, failures >>

\* The transaction of the next batch fails: nothing of it is committed,
\* processFilesInBatches sends FAILED and rethrows.
SaveBatchFail(p) ==
  /\ jobState[p] = "active" /\ pc[p] = "files"
  /\ batch[p] < Len(FileBatches(Files(p)))
  /\ Throw(p)
  /\ updates' = updates \cup {Update("FAILED", "Failed to save files", p, 0)}
  /\ UNCHANGED << status, counter, store, enqueued, jobState, result,
                  directoryMap, batch, fan, handler >>

FilesDoneNoAwait(p) ==
  /\ jobState[p] = "active" /\ pc[p] = "files"
  /\ updates' = updates \cup {Update("SUCCESS", "Finished processing files", p, 0)}
  /\ fan' = [d \in DOMAIN fan |-> IF d \in Children(p) THEN "todo" ELSE fan[d]]
  /\ pc' = [pc EXCEPT ![p] = "fanout"]
  /\ UNCHANGED << status, counter, store, enqueued, jobState, result,
                  directoryMap, batch, handler, failures >>

\* After the last batch processFilesInBatches sends its closing update, with
\* status SUCCESS, and the worker starts the Promise.all fan-out: every
\* subdirectory's callback is started.
FilesDone(p) ==
  /\ jobState[p] = "active" /\ pc[p] = "files"
  /\ batch[p] = Len(FileBatches(Files(p)))
  /\ updates' = updates \cup {Update("SUCCESS", "Finished processing files", p, 0)}
  /\ fan' = [d \in DOMAIN fan |-> IF d \in Children(p) THEN "todo" ELSE fan[d]]
  /\ pc' = [pc EXCEPT ![p] = "fanout"]
  /\ UNCHANGED << status, counter, store, enqueued, jobState, result,
                  directoryMap, batch, handler, failures >>

\* A rejected callback rejects Promise.all: the worker, if it still awaits
\* the fan-out, goes to its catch. The other callbacks keep running.
Reject(d) ==
  /\ CanFail
  /\ failures' = failures + 1
  /\ pc' = [pc EXCEPT ![Parent(d)] =
              IF pc[Parent(d)] = "fanout" THEN "catch" ELSE pc[Parent(d)]]

\* redisConnection.incr of the callback for subdirectory d
FanIncrNoCount(d) ==
  /\ fan[d] = "todo"
  /\ fan' = [fan EXCEPT ![d] = "incremented"]
  /\ UNCHANGED << counter, status, store, updates, enqueued, jobState, pc, result,
                  directoryMap, batch, handler, failures >>

FanIncrTwice(d) ==
  /\ fan[d] = "todo"
  /\ counter' = counter + 2
  /\ fan' = [fan EXCEPT ![d] = "incremented"]
  /\ UNCHANGED << status, store, updates, enqueued, jobState, pc, result,
                  directoryMap, batch, handler, failures >>

FanIncr(d) ==
  /\ fan[d] = "todo"
  /\ counter' = counter + 1
  /\ fan' = [fan EXCEPT ![d] = "incremented"]
  /\ UNCHANGED << status, store, updates, enqueued, jobState, pc, result,
                  directoryMap, batch, handler, failures >>

FanIncrFail(d) ==
  /\ fan[d] = "todo"
  /\ Reject(d)
  /\ fan' = [fan EXCEPT ![d] = "incrFailed"]
  /\ UNCHANGED << status, counter, store, updates, enqueued, jobState, result,
                  directoryMap, batch, handler >>

FanAddTwice(d) ==
  /\ fan[d] = "incremented"
  /\ enqueued' = [enqueued EXCEPT ![d] = @ + 2]
  /\ jobState' = [jobState EXCEPT ![d] = "waiting"]
  /\ fan' = [fan EXCEPT ![d] = "added"]
  /\ UNCHANGED << status, counter, store, updates, pc, result, directoryMap,
                  batch, handler, failures >>

\* directoryQueue.add of the callback for subdirectory d
FanAdd(d) ==
  /\ fan[d] = "incremented"
  /\ enqueued' = [enqueued EXCEPT ![d] = @ + 1]
  /\ jobState' = [jobState EXCEPT ![d] = "waiting"]
  /\ fan' = [fan EXCEPT ![d] = "added"]
  /\ UNCHANGED << status, counter, store, updates, pc, result, directoryMap,
                  batch, handler, failures >>

FanAddFail(d) ==
  /\ fan[d] = "incremented"
  /\ Reject(d)
  /\ fan' = [fan EXCEPT ![d] = "addFailed"]
  /\ UNCHANGED << status, counter, store, updates, enqueued, jobState, result,
                  directoryMap, batch, handler >>

\* Promise.all resolves; "Finished processing directory" is sent and the
\* worker returns { status: "SUCCESS" }: the job completes.
Finish(p) ==
  /\ jobState[p] = "active" /\ pc[p] = "fanout"
  /\ \A d \in Children(p) : fan[d] = "added"
  /\ updates' = updates \cup {Update("PROCESSING", "Finished processing directory", p, 0)}
  /\ jobState' = [jobState EXCEPT ![p] = "completed"]
  /\ pc' = [pc EXCEPT ![p] = "returned"]
  /\ result' = [result EXCEPT ![p] = "SUCCESS"]
  /\ hpc' = [hpc EXCEPT ![p] = "decr"]
  /\ UNCHANGED << status, counter, store, enqueued, directoryMap, batch, fan,
                  remainingJobs, repoStatus, released, zeroSeen, fired, failures >>

\* The catch block: status FAILED is written, the FAILED update is sent, and
\* the function returns without rethrowing: the job completes.
Catch(p) ==
  /\ jobState[p] = "active" /\ pc[p] = "catch"
  /\ status' = "FAILED"
  /\ updates' = updates \cup {Update("FAILED", "Failed to process directory", p, 0)}
  /\ jobState' = [jobState EXCEPT ![p] = "completed"]
  /\ pc' = [pc EXCEPT ![p] = "returned"]
  /\ result' = [result EXCEPT ![p] = "undefined"]
  /\ hpc' = [hpc EXCEPT ![p] = "decr"]
  /\ UNCHANGED << counter, store, enqueued, directoryMap, batch, fan,
                  remainingJobs, repoStatus, released, zeroSeen, fired, failures >>

\* prisma.repository.update inside the catch throws: the error escapes the
\* worker function and the job fails.
CatchFail(p) ==
  /\ jobState[p] = "active" /\ pc[p] = "catch"
  /\ CanFail
  /\ failures' = failures + 1
  /\ jobState' = [jobState EXCEPT ![p] = "failed"]
  /\ pc' = [pc EXCEPT ![p] = "returned"]
  /\ result' = [result EXCEPT ![p] = "thrown"]
  /\ UNCHANGED << status, counter, store, updates, enqueued, directoryMap, batch,
                  fan, handler >>

\* ----------------------------------------------------------- event handlers

OnFailedDecr(p) ==
  /\ jobState[p] = "failed"
  /\ jobState' = [jobState EXCEPT ![p] = "done"]
  /\ counter' = counter - 1
  /\ UNCHANGED << status, store, updates, enqueued, pc, result,
                  directoryMap, batch, fan, handler, failures >>

\* directoryWorker.on("failed"): logs only.
OnFailed(p) ==
  /\ jobState[p] = "failed"
  /\ jobState' = [jobState EXCEPT ![p] = "done"]
  /\ UNCHANGED << status, counter, store, updates, enqueued, pc, result,
                  directoryMap, batch, fan, handler, failures >>

\* The condition under which the completed handler finalises the run
ShouldFinalizeAnyStatus(remaining, st) == remaining = 0

ShouldFinalize(remaining, st) == remaining = 0 /\ st = "PROCESSING"

\* directoryWorker.on("completed"): redisConnection.decr
OnCompletedDecrTwice(p) ==
  /\ jobState[p] = "completed" /\ hpc[p] = "decr"
  /\ counter' = counter - 2
  /\ remainingJobs' = [remainingJobs EXCEPT ![p] = counter - 2]
  /\ released' = released \cup {p}
  /\ hpc' = [hpc EXCEPT ![p] = "read"]
  /\ UNCHANGED << status, store, updates, enqueued, jobState, pc, result,
                  directoryMap, batch, fan, repoStatus, zeroSeen, fired, failures >>

OnCompletedDecrSuccessOnly(p) ==
  /\ jobState[p] = "completed" /\ hpc[p] = "decr"
  /\ counter' = IF result[p] = "SUCCESS" THEN counter - 1 ELSE counter
  /\ remainingJobs' = [remainingJobs EXCEPT ![p] = counter']
  /\ released' = IF result[p] = "SUCCESS" THEN released \cup {p} ELSE released
  /\ hpc' = [hpc EXCEPT ![p] = "read"]
  /\ UNCHANGED << status, store, updates, enqueued, jobState, pc, result,
                  directoryMap, batch, fan, repoStatus, zeroSeen, fired, failures >>

OnCompletedDecr(p) ==
  /\ jobState[p] = "completed" /\ hpc[p] = "decr"
  /\ counter' = counter - 1
  /\ remainingJobs' = [remainingJobs EXCEPT ![p] = counter - 1]
  /\ released' = released \cup {p}
  /\ hpc' = [hpc EXCEPT ![p] = "read"]
  /\ UNCHANGED << status, store, updates, enqueued, jobState, pc, result,
                  directoryMap, batch, fan, repoStatus, zeroSeen, fired, failures >>

\* directoryWorker.on("completed"): prisma.repository.findUnique
OnCompletedRead(p) ==
  /\ jobState[p] = "completed" /\ hpc[p] = "read"
  /\ repoStatus' = [repoStatus EXCEPT ![p] = status]
  /\ zeroSeen' = IF ShouldFinalize(remainingJobs[p], status)
                 THEN zeroSeen + 1 ELSE zeroSeen
  /\ hpc' = [hpc EXCEPT ![p] = "check"]
  /\ UNCHANGED << status, counter, store, updates, enqueued, jobState, pc, result,
                  directoryMap, batch, fan, remainingJobs, released, fired,
                  failures >>

\* directoryWorker.on("completed"): the if/else on what was read
OnCompletedCheck(p) ==
  /\ jobState[p] = "completed" /\ hpc[p] = "check"
  /\ IF ShouldFinalize(remainingJobs[p], repoStatus[p])
     THEN /\ status' = "SUCCESS"
          /\ updates' = updates \cup {Update("SUCCESS", "All processed", Root, 0)}
          /\ fired' = fired + 1
     ELSE UNCHANGED << status, updates, fired >>
  /\ hpc' = [hpc EXCEPT ![p] = "done"]
  /\ jobState' = [jobState EXCEPT ![p] = "done"]
  /\ UNCHANGED << counter, store, enqueued, pc, result, directoryMap, batch, fan,
                  remainingJobs, repoStatus, released, zeroSeen, failures >>

\* An await of the completed handler rejects (decr, findUnique or update):
\* the handler stops there.
OnCompletedFail(p) ==
  /\ jobState[p] = "completed"
  /\ \/ hpc[p] \in {"decr", "read"}
     \/ hpc[p] = "check" /\ ShouldFinalize(remainingJobs[p], repoStatus[p])
  /\ CanFail
  /\ failures' = failures + 1
  /\ hpc' = [hpc EXCEPT ![p] = "aborted"]
  /\ jobState' = [jobState EXCEPT ![p] = "done"]
  /\ UNCHANGED << status, counter, store, updates, enqueued, pc, result,
                  directoryMap, batch, fan, remainingJobs, repoStatus, released,
                  zeroSeen, fired >>

\* ---------------------------------------------------------- specifications

NextOK ==
  \/ \E p \in Paths : Start(p)
  \/ \E p \in Paths : Fetch(p)
  \/ \E p \in Paths : SaveDirs(p)
  \/ \E p \in Paths : SaveBatch(p)
  \/ \E p \in Paths : FilesDone(p)
  \/ \E d \in Paths \ {Root} : FanIncr(d)
  \/ \E d \in Paths \ {Root} : FanAdd(d)
  \/ \E p \in Paths : Finish(p)
  \/ \E p \in Paths : OnCompletedDecr(p)
  \/ \E p \in Paths : OnCompletedRead(p)
  \/ \E p \in Paths : OnCompletedCheck(p)

NextFail ==
  \/ \E p \in Paths : FetchFail(p)
  \/ \E p \in Paths : SaveDirsFail(p)
  \/ \E p \in Paths : SaveBatchFail(p)
  \/ \E d \in Paths \ {Root} : FanIncrFail(d)
  \/ \E d \in Paths \ {Root} : FanAddFail(d)
  \/ \E p \in Paths : Catch(p)
  \/ \E p \in Paths : CatchFail(p)
  \/ \E p \in Paths : OnFailed(p)
  \/ \E p \in Paths : OnCompletedFail(p)

Next == NextOK \/ NextFail

\* Every interleaving of workers and handlers, with up to MaxFailures failures
Spec == Init /\ [][Next]_vars

\* No operation fails; queued jobs and handlers are scheduled fairly
LiveSpec == Init /\ [][NextOK]_vars /\ WF_vars(NextOK)

\* Up to MaxFailures failures; every enabled step is eventually scheduled
FairSpec == Init /\ [][Next]_vars /\ WF_vars(Next)

\* ------------------------------------------------------------------ claims

Pending == {p \in Paths : jobState[p] \in {"waiting", "active"}}

AwaitingEnqueue == {d \in DOMAIN fan : fan[d] \in {"todo", "incremented"}}

\* C1: whenever the run's status is SUCCESS, no crawl job of the run is
\* queued or executing and no child job is still waiting to be enqueued.
NoPrematureCompletion ==
  status = "SUCCESS" => Pending = {} /\ AwaitingEnqueue = {}

\* C1 witness: the run was declared SUCCESS after every directory of the tree
\* had its job enqueued.
SuccessAfterWholeTree ==
  status = "SUCCESS" /\ \A p \in Paths : enqueued[p] = 1

\* C2: with no failure and fair scheduling the counter eventually reaches
\* zero and the status eventually becomes SUCCESS, and both stay so.
EventualCompletion == <>[](status = "SUCCESS" /\ counter = 0)

\* C2 witness: the completed run, every job's handler finished.
RunCompleted ==
  status = "SUCCESS" /\ counter = 0 /\ \A p \in Paths : hpc[p] = "done"

\* C3: the status only moves from PROCESSING to SUCCESS or FAILED, and once
\* it is SUCCESS or FAILED no step changes it.
TerminalStatusIsStable ==
  [][/\ status \in {"SUCCESS", "FAILED"} => status' = status
     /\ status' # status => status = "PROCESSING" /\ status' \in {"SUCCESS", "FAILED"}]_vars

\* C3 witness: a completion handler observed counter zero on a FAILED run and
\* is about to decide.
ZeroObservedOnFailedRun ==
  \E p \in Paths :
    hpc[p] = "check" /\ remainingJobs[p] = 0 /\ repoStatus[p] = "FAILED"
    /\ status = "FAILED"

\* C4: the counter is never negative, at most one completion handler observes
\* zero together with PROCESSING, and SUCCESS is written at most once.
CounterNonNegativeSuccessOnce ==
  counter >= 0 /\ zeroSeen <= 1 /\ fired <= 1

\* C4 witness: the counter reached zero a second time (after a failure) and
\* the transition had fired or been refused for a terminal status.
ZeroReachedTwice ==
  /\ counter = 0
  /\ Cardinality({p \in Paths : hpc[p] \in {"check", "done"} /\ remainingJobs[p] = 0}) >= 2

\* Jobs enqueued whose completion no decrement has accounted for
Outstanding == {p \in Paths : enqueued[p] > 0} \ released

\* Increment-then-enqueue pairs whose increment is applied and whose enqueue
\* is not
HalfDone == {d \in DOMAIN fan : fan[d] \in {"incremented", "addFailed"}}

NoJobFailed == \A p \in Paths : pc[p] # "catch" /\ result[p] \in {"none", "SUCCESS"}

\* C5: the counter is at least the number of enqueued jobs not yet accounted
\* for by a decrement, and equals it when no increment-then-enqueue pair is
\* half done and no job has failed.
CounterNeverUnderCounts ==
  /\ counter >= Cardinality(Outstanding)
  /\ HalfDone = {} /\ NoJobFailed => counter = Cardinality(Outstanding)

\* C5 witness: children are enqueued, a job has been decremented, and the
\* counter equals the outstanding jobs.
CounterExactMidRun ==
  /\ HalfDone = {} /\ NoJobFailed
  /\ released # {} /\ Cardinality(Outstanding) >= 2
  /\ counter = Cardinality(Outstanding)

Errored(p) == result[p] \in {"undefined", "thrown"}

\* C6: every job in which an error was raised leaves the status FAILED and a
\* FAILED update for its directory sent.
ErrorSetsFailed ==
  \A p \in Paths :
    Errored(p) =>
      /\ status = "FAILED"
      /\ Update("FAILED", "Failed to process directory", p, 0) \in updates

SuccessUpdateOnlyAtCompletion ==
  \A u \in updates :
    u.status = "SUCCESS" => u.kind = "All processed" /\ fired >= 1 /\ Pending = {}

\* C9: a directory row discovered by a job for a non-root path references the
\* row of that path as its parent; the reference is absent only directly
\* under the root.
ParentReferences ==
  \A r \in BagToSet(dirRows) :
    r.parentId = IF ParentPath(r.path) = Root THEN NULL
                 ELSE RowId(ParentPath(r.path))

\* C10: a file row references the row of its job's path as its directory, and
\* no directory only when the job's path is the root.
FileDirectoryReferences ==
  \A f \in BagToSet(fileRows) :
    f.directoryId = IF ParentPath(f.path) = Root THEN NULL
                    ELSE RowId(ParentPath(f.path))

\* Number of rows of a table with the given path
Copies(rows, path) ==
  LET S == {r \in BagToSet(rows) : r.path = path}
  IN  IF S = {} THEN 0 ELSE BagCardinality([r \in S |-> rows[r]])

RECURSIVE Sum(_, _)
Sum(f, S) ==
  IF S = {} THEN 0
  ELSE LET x == CHOOSE x \in S : TRUE IN f[x] + Sum(f, S \ {x})

DirectoryItems == Sum([p \in Paths |-> Len(Directories(p))], Paths)

FileItems == Sum([p \in Paths |-> Len(Files(p))], Paths)

\* C11: every item discovered by a job that returned normally has exactly one
\* row, and on a run that reached SUCCESS the directory and file tables hold
\* as many rows as directory and file items were discovered.
ItemsPersistedExactlyOnce ==
  /\ \A p \in Paths :
       result[p] = "SUCCESS" =>
         \A i \in DOMAIN Tree[p] :
           Copies(IF Tree[p][i].type = "dir" THEN dirRows ELSE fileRows,
                  Tree[p][i].path) = 1
  /\ status = "SUCCESS" =>
       /\ BagCardinality(dirRows) = DirectoryItems
       /\ BagCardinality(fileRows) = FileItems

\* C11 witness: the run completed and both tables are filled.
RunCompletedWithRows ==
  /\ status = "SUCCESS"
  /\ \A p \in Paths : result[p] = "SUCCESS"
  /\ BagCardinality(dirRows) = DirectoryItems /\ DirectoryItems >= 2
  /\ BagCardinality(fileRows) = FileItems /\ FileItems >= 2

\* ceil(n / b)
CeilDiv(n, b) == (n + b - 1) \div b

\* C12: the n files of a job are cut into ceil(n/B) batches, batch i holding
\* files (i-1)*B+1 .. min(i*B, n) in order; after k committed batches exactly
\* the first min(k*B, n) files have a row, one row each, and exactly the
\* "Saved batch" updates 1..k were sent; a job past the loop committed all.
BatchesAsSpecified ==
  \A p \in Paths :
    LET files == Files(p)
        n == Len(files)
        B == FILE_BATCH_SIZE
        fileBatches == FileBatches(files)
        total == Len(fileBatches)
    IN  /\ total = CeilDiv(n, B)
        /\ \A i \in 1..total :
             fileBatches[i] = SubSeq(files, (i - 1) * B + 1, Min(i * B, n))
        /\ batch[p] <= total
        /\ \A j \in 1..n :
             Copies(fileRows, files[j].path) = IF j <= batch[p] * B THEN 1 ELSE 0
        /\ {u.i : u \in {v \in updates : v.kind = "Saved batch" /\ v.path = p}}
             = 1..batch[p]
        /\ (pc[p] = "fanout" \/ result[p] = "SUCCESS") => batch[p] = total

\* C12 witness: a job committed two or more batches, the last one partial.
PartialLastBatchCommitted ==
  \E p \in Paths :
    LET fileBatches == FileBatches(Files(p))
    IN  /\ Len(fileBatches) >= 2
        /\ batch[p] = Len(fileBatches)
        /\ Len(fileBatches[Len(fileBatches)]) < FILE_BATCH_SIZE
        /\ pc[p] = "fanout"

\* The transaction of a batch of job p failed
BatchFailed(p) == Update("FAILED", "Failed to save files", p, 0) \in updates

\* C13: when the transaction of a batch fails, the batches before it stay
\* committed, no file of the failed or a later batch is persisted, the error
\* reaches the worker, and the run is FAILED once the job has ended.
FailedBatchFailsRun ==
  \A p \in Paths :
    BatchFailed(p) =>
      /\ \A j \in 1..Len(Files(p)) :
           Copies(fileRows, Files(p)[j].path)
             = IF j <= batch[p] * FILE_BATCH_SIZE THEN 1 ELSE 0
      /\ pc[p] \in {"catch", "returned"}
      /\ result[p] # "none" => status = "FAILED"

\* fetchGithubContent of job p failed
FetchFailed(p) ==
  /\ pc[p] \in {"catch", "returned"}
  /\ Update("PROCESSING", "Processing directory", p, 0) \notin updates

IsDescendant(d, p) == Len(d) > Len(p) /\ SubSeq(d, 1, Len(p)) = p

\* C14: when the fetch of a directory fails, the run is FAILED once the job
\* has ended, and no descendant of the directory is counted or enqueued.
FetchFailureStopsSubtree ==
  \A p \in Paths :
    FetchFailed(p) =>
      /\ result[p] # "none" => status = "FAILED"
      /\ \A d \in Paths :
           IsDescendant(d, p) =>
             fan[d] = "none" /\ enqueued[d] = 0 /\ jobState[d] = "none"

\* Nothing of the run is queued, executing, awaiting its enqueue or awaiting
\* its event handler
Quiescent ==
  /\ \A p \in Paths : jobState[p] \in {"none", "done"}
  /\ AwaitingEnqueue = {}

FilePaths == UNION {{Files(p)[i].path : i \in 1..Len(Files(p))} : p \in Paths}

\* C15: with no failure, whatever the order in which sibling jobs execute and
\* their completion handlers run, the run ends in one and the same state:
\* one row per directory and per file of the tree with the same references,
\* counter 0 and status SUCCESS.
FinalStateIsOrderIndependent ==
  Quiescent =>
    /\ dirRows = SetToBag({[id |-> RowId(d), path |-> d, parentId |-> NULL] :
                             d \in Paths \ {Root}})
    /\ fileRows = SetToBag({[path |-> f, directoryId |-> NULL] : f \in FilePaths})
    /\ counter = 0
    /\ status = "SUCCESS"

\* C15 witness: the run ended with sibling b's completion accounted for
\* before sibling a's, the reverse of the order of the listing.
SiblingsCompletedInReverse ==
  /\ Quiescent
  /\ status = "SUCCESS"
  /\ remainingJobs[<<"b">>] > remainingJobs[<<"a">>]

\* C16: no two directory rows and no two file rows share a path, a directory
\* row exists only as created by the job that expands its parent directory,
\* and at most one job is ever enqueued for a path.
UniquePathsAndJobs ==
  /\ \A d \in Paths \ {Root} :
       /\ Copies(dirRows, d) <= 1
       /\ Copies(dirRows, d) = 1 => \E r \in directoryMap[Parent(d)] : r.path = d
  /\ \A f \in FilePaths : Copies(fileRows, f) <= 1
  /\ \A p \in Paths : enqueued[p] <= 1

\* C16 witness: every directory and file of the tree has its row and every
\* directory had its job.
WholeTreeStored ==
  /\ \A d \in Paths \ {Root} : Copies(dirRows, d) = 1
  /\ \A f \in FilePaths : Copies(fileRows, f) = 1
  /\ \A p \in Paths : enqueued[p] = 1

\* C17: once a job's failure has been handled (its catch has run), no
\* callback of its fan-out increments the counter or enqueues a child job.
FailedJobStops ==
  [][\A d \in DOMAIN fan :
       result[Parent(d)] = "undefined" =>
         /\ ~(fan[d] = "todo" /\ fan'[d] = "incremented")
         /\ ~(fan[d] = "incremented" /\ fan'[d] = "added")
         /\ enqueued'[d] = enqueued[d]]_vars

\* C18: a child job is counted and enqueued only after its directory row and
\* every file batch of the parent job are committed, so the row of a job's
\* path exists whenever the job exists.
PersistBeforeEnqueue ==
  \A d \in Paths \ {Root} :
    (fan[d] \in {"incremented", "added", "addFailed"} \/ enqueued[d] > 0
       \/ jobState[d] # "none") =>
      /\ Copies(dirRows, d) >= 1
      /\ batch[Parent(d)] = Len(FileBatches(Files(Parent(d))))

\* C18 witness: a job for a path below a non-root directory is executing and
\* the row of its path is in the store.
NestedJobRunsWithRow ==
  \E d \in Paths :
    /\ Len(d) >= 2 /\ jobState[d] = "active" /\ pc[d] = "fetch"
    /\ Copies(dirRows, d) = 1

\* C19: a job that ended through the failure event is never decremented, and
\* from then on the counter is at least 1 and the status is PROCESSING or
\* FAILED, never SUCCESS; the failed handler changes neither counter nor
\* status.
FailedEventKeepsSlot ==
  /\ [](\A p \in Paths :
          result[p] = "thrown" =>
            /\ p \notin released
            /\ counter >= 1
            /\ status \in {"PROCESSING", "FAILED"})
  /\ [][\A p \in Paths :
          jobState[p] = "failed" /\ jobState'[p] = "done" =>
            counter' = counter /\ status' = status]_vars

\* C19 witness: the failed handler has run for a job, the run has come to
\* rest, and the status is still PROCESSING with the slot in the counter.
RunStuckAfterFailedEvent ==
  /\ \E p \in Paths : result[p] = "thrown" /\ jobState[p] = "done"
  /\ Quiescent
  /\ status = "PROCESSING" /\ counter >= 1

\* C20: never more jobs are enqueued than the tree has directories, a job
\* creates rows for the immediate children of its path only, and under fair
\* scheduling every run comes to rest: nothing queued or executing, and the
\* counter no longer changing.
CrawlTerminates ==
  /\ [](/\ Sum(enqueued, Paths) <= Cardinality(Paths)
        /\ \A p \in Paths : \A r \in directoryMap[p] : ParentPath(r.path) = p)
  /\ [][Quiescent => counter' = counter]_vars
  /\ <>[]Quiescent

\* C20 witness: a run with failures has come to rest with part of the tree
\* never enqueued.
RunAtRestAfterFailure ==
  /\ Quiescent
  /\ failures >= 1
  /\ \E p \in Paths : enqueued[p] = 0

====
